---- MODULE Spec2Model ----
(***************************************************************************)
(* Model of the `intervals` crate: the bound kinds, the bound algebra      *)
(* (validate, pinch, unroll) and the Interval operations built on it.      *)
(*                                                                         *)
(* Rust selects an implementation per pair of bound TYPES at compile time. *)
(* A bound is therefore modelled with its static type (ty) next to its     *)
(* run-time tag and value:                                                 *)
(*   ty  : "NoBound" | "Open" | "Closed" | "OpenOrClosed"                  *)
(*   tag : "None" | "Open" | "Closed"   (the variant of OpenOrClosed, or   *)
(*         the kind itself for the fixed kinds)                            *)
(*   v   : the carried value (0 for NoBound, which carries PhantomData)    *)
(* Every operator below dispatches on ty exactly as the trait impls do.    *)
(* An Option is a sequence of length 0 (None) or 1 (Some).                 *)
(***************************************************************************)
EXTENDS Integers, Sequences, FiniteSets, TLC

\* Largest value of the value domain V (an integer type: a total order).
MaxVal == 2

Vals == 0..MaxVal

-----------------------------------------------------------------------------
(* Bound kinds *)

NoBound == [ty |-> "NoBound", tag |-> "None", v |-> 0]

Open(val) == [ty |-> "Open", tag |-> "Open", v |-> val]

Closed(val) == [ty |-> "Closed", tag |-> "Closed", v |-> val]

OpenOrClosed_Open(val) == [ty |-> "OpenOrClosed", tag |-> "Open", v |-> val]

OpenOrClosed_Closed(val) == [ty |-> "OpenOrClosed", tag |-> "Closed", v |-> val]

Bounds ==
    {NoBound}
      \cup {Open(val) : val \in Vals}
      \cup {Closed(val) : val \in Vals}
      \cup {OpenOrClosed_Open(val) : val \in Vals}
      \cup {OpenOrClosed_Closed(val) : val \in Vals}

\* Bound::value
value(b) == IF b.ty = "NoBound" THEN <<>> ELSE <<b.v>>

\* Bound::is_open
is_open(b) ==
    CASE b.ty = "NoBound" -> FALSE
      [] b.ty = "Open" -> TRUE
      [] b.ty = "Closed" -> FALSE
      [] b.ty = "OpenOrClosed" -> (b.tag = "Open")

\* Bound::is_closed
is_closed(b) ==
    CASE b.ty = "NoBound" -> FALSE
      [] b.ty = "Open" -> FALSE
      [] b.ty = "Closed" -> TRUE
      [] b.ty = "OpenOrClosed" -> (b.tag = "Closed")

\* Mutant: the limit point is not included, the bound is returned as it is.
with_limit_point_mut(b) == b

\* Bound::with_limit_point
with_limit_point(b) ==
    CASE b.ty = "NoBound" -> b
      [] b.ty = "Open" -> Closed(b.v)
      [] b.ty = "Closed" -> b
      [] b.ty = "OpenOrClosed" -> Closed(b.v)

\* ProperBound::proper_value (Open, Closed, OpenOrClosed only)
proper_value(b) == b.v

\* From<Open<V>> / From<Closed<V>> for OpenOrClosed<V>, and the identity
\* conversion of an OpenOrClosed<V> into itself.
into(b) ==
    CASE b.ty = "Open" -> OpenOrClosed_Open(b.v)
      [] b.ty = "Closed" -> OpenOrClosed_Closed(b.v)
      [] b.ty = "OpenOrClosed" -> b

-----------------------------------------------------------------------------
(* Pinch: the fixed kinds *)

\* Mutant: at equal values the Closed operand is kept.
pinch_left_Closed_Open_mut(self, other) ==
    IF self.v >= other.v THEN OpenOrClosed_Closed(self.v)
    ELSE OpenOrClosed_Open(other.v)

\* impl Pinch<Open<V>> for Closed<V>
pinch_left_Closed_Open(self, other) ==
    IF self.v > other.v THEN OpenOrClosed_Closed(self.v)
    ELSE OpenOrClosed_Open(other.v)

pinch_right_Closed_Open(self, other) ==
    IF self.v < other.v THEN OpenOrClosed_Closed(self.v)
    ELSE OpenOrClosed_Open(other.v)

\* Mutant: the left-pinch keeps the smaller value.
pinch_left_Closed_Closed_mut(self, other) ==
    IF self.v <= other.v THEN self ELSE other

\* Mutant: the right-pinch keeps the larger value.
pinch_right_Closed_Closed_mut(self, other) ==
    IF self.v >= other.v THEN self ELSE other

\* impl Pinch<Closed<V>> for Closed<V>
pinch_left_Closed_Closed(self, other) ==
    IF self.v >= other.v THEN self ELSE other

pinch_right_Closed_Closed(self, other) ==
    IF self.v <= other.v THEN self ELSE other

\* impl Pinch<Open<V>> for Open<V>
pinch_left_Open_Open(self, other) ==
    IF self.v >= other.v THEN self ELSE other

pinch_right_Open_Open(self, other) ==
    IF self.v <= other.v THEN self ELSE other

\* Mutant: on a tie the closed bound wins the left-pinch.
pinch_left_Open_Closed_mut(self, other) ==
    IF self.v > other.v THEN OpenOrClosed_Open(self.v)
    ELSE OpenOrClosed_Closed(other.v)

\* Mutant: on a tie the closed bound wins the right-pinch.
pinch_right_Open_Closed_mut(self, other) ==
    IF self.v < other.v THEN OpenOrClosed_Open(self.v)
    ELSE OpenOrClosed_Closed(other.v)

\* impl Pinch<Closed<V>> for Open<V>
pinch_left_Open_Closed(self, other) ==
    IF self.v >= other.v THEN OpenOrClosed_Open(self.v)
    ELSE OpenOrClosed_Closed(other.v)

pinch_right_Open_Closed(self, other) ==
    IF self.v <= other.v THEN OpenOrClosed_Open(self.v)
    ELSE OpenOrClosed_Closed(other.v)

\* impl_pinch! of no_bound.rs: both methods share one body, `self` when the
\* right operand is NoBound and `rhs` when the left operand is.
pinch_NoBound(self, rhs) ==
    IF self.ty = "NoBound" /\ rhs.ty # "NoBound" THEN rhs ELSE self

\* pinch_left of two bounds whose types are among NoBound, Open, Closed
pinch_left_fixed(self, other) ==
    CASE self.ty = "NoBound" \/ other.ty = "NoBound" -> pinch_NoBound(self, other)
      [] self.ty = "Closed" /\ other.ty = "Open" -> pinch_left_Closed_Open(self, other)
      [] self.ty = "Closed" /\ other.ty = "Closed" -> pinch_left_Closed_Closed(self, other)
      [] self.ty = "Open" /\ other.ty = "Open" -> pinch_left_Open_Open(self, other)
      [] self.ty = "Open" /\ other.ty = "Closed" -> pinch_left_Open_Closed(self, other)

pinch_right_fixed(self, other) ==
    CASE self.ty = "NoBound" \/ other.ty = "NoBound" -> pinch_NoBound(self, other)
      [] self.ty = "Closed" /\ other.ty = "Open" -> pinch_right_Closed_Open(self, other)
      [] self.ty = "Closed" /\ other.ty = "Closed" -> pinch_right_Closed_Closed(self, other)
      [] self.ty = "Open" /\ other.ty = "Open" -> pinch_right_Open_Open(self, other)
      [] self.ty = "Open" /\ other.ty = "Closed" -> pinch_right_Open_Closed(self, other)

-----------------------------------------------------------------------------
(* Pinch: the dynamic union, mixed.rs *)

\* Mutant: the Open arm of the match re-builds the operand as Closed.
pinch_left_fixed_OpenOrClosed_mut(self, other) ==
    into(pinch_left_fixed(self, Closed(other.v)))

\* impl Pinch<OpenOrClosed<V>> for $other, $other in Open, Closed, NoBound
pinch_left_fixed_OpenOrClosed(self, other) ==
    IF other.tag = "Open" THEN into(pinch_left_fixed(self, Open(other.v)))
    ELSE into(pinch_left_fixed(self, Closed(other.v)))

pinch_right_fixed_OpenOrClosed(self, other) ==
    IF other.tag = "Open" THEN into(pinch_right_fixed(self, Open(other.v)))
    ELSE into(pinch_right_fixed(self, Closed(other.v)))

\* pinch of a fixed-kind left operand with any right operand
pinch_left_from_fixed(self, other) ==
    IF other.ty = "OpenOrClosed" THEN pinch_left_fixed_OpenOrClosed(self, other)
    ELSE pinch_left_fixed(self, other)

pinch_right_from_fixed(self, other) ==
    IF other.ty = "OpenOrClosed" THEN pinch_right_fixed_OpenOrClosed(self, other)
    ELSE pinch_right_fixed(self, other)

\* impl Pinch<$other> for OpenOrClosed<V> and
\* impl Pinch<OpenOrClosed<V>> for OpenOrClosed<V>: match on self
pinch_left_OpenOrClosed(self, other) ==
    IF self.tag = "Open" THEN into(pinch_left_from_fixed(Open(self.v), other))
    ELSE into(pinch_left_from_fixed(Closed(self.v), other))

pinch_right_OpenOrClosed(self, other) ==
    IF self.tag = "Open" THEN into(pinch_right_from_fixed(Open(self.v), other))
    ELSE into(pinch_right_from_fixed(Closed(self.v), other))

\* Pinch::pinch_left, selected by the operand types
pinch_left(self, other) ==
    IF self.ty = "OpenOrClosed" THEN pinch_left_OpenOrClosed(self, other)
    ELSE pinch_left_from_fixed(self, other)

\* Pinch::pinch_right, selected by the operand types
pinch_right(self, other) ==
    IF self.ty = "OpenOrClosed" THEN pinch_right_OpenOrClosed(self, other)
    ELSE pinch_right_from_fixed(self, other)

-----------------------------------------------------------------------------
(* Unroll *)

\* impl_unroll! of no_bound.rs: any pair with a NoBound operand
unroll_NoBound(self, other) == NoBound

\* Mutant: at equal values the Open operand is kept.
unroll_left_Closed_Open_mut(self, other) ==
    IF self.v < other.v THEN OpenOrClosed_Closed(self.v)
    ELSE OpenOrClosed_Open(other.v)

\* impl Unroll<Open<V>> for Closed<V>
unroll_left_Closed_Open(self, other) ==
    IF self.v <= other.v THEN OpenOrClosed_Closed(self.v)
    ELSE OpenOrClosed_Open(other.v)

unroll_right_Closed_Open(self, other) ==
    IF self.v >= other.v THEN OpenOrClosed_Closed(self.v)
    ELSE OpenOrClosed_Open(other.v)

\* impl Unroll<Closed<V>> for Closed<V>
unroll_left_Closed_Closed(self, other) ==
    IF self.v <= other.v THEN self ELSE other

unroll_right_Closed_Closed(self, other) ==
    IF self.v >= other.v THEN self ELSE other

\* impl Unroll<Open<V>> for Open<V>
unroll_left_Open_Open(self, other) ==
    IF self.v <= other.v THEN self ELSE other

unroll_right_Open_Open(self, other) ==
    IF self.v >= other.v THEN self ELSE other

\* impl Unroll<Closed<V>> for Open<V>
unroll_left_Open_Closed(self, other) ==
    IF self.v < other.v THEN OpenOrClosed_Open(self.v)
    ELSE OpenOrClosed_Closed(other.v)

\* Mutant: at equal values the Open operand is kept.
unroll_right_Open_Closed_mut(self, other) ==
    IF self.v >= other.v THEN OpenOrClosed_Open(self.v)
    ELSE OpenOrClosed_Closed(other.v)

unroll_right_Open_Closed(self, other) ==
    IF self.v > other.v THEN OpenOrClosed_Open(self.v)
    ELSE OpenOrClosed_Closed(other.v)

\* unroll_left of two bounds whose types are among Open, Closed
unroll_left_fixed(self, other) ==
    CASE self.ty = "Closed" /\ other.ty = "Open" -> unroll_left_Closed_Open(self, other)
      [] self.ty = "Closed" /\ other.ty = "Closed" -> unroll_left_Closed_Closed(self, other)
      [] self.ty = "Open" /\ other.ty = "Open" -> unroll_left_Open_Open(self, other)
      [] self.ty = "Open" /\ other.ty = "Closed" -> unroll_left_Open_Closed(self, other)

unroll_right_fixed(self, other) ==
    CASE self.ty = "Closed" /\ other.ty = "Open" -> unroll_right_Closed_Open(self, other)
      [] self.ty = "Closed" /\ other.ty = "Closed" -> unroll_right_Closed_Closed(self, other)
      [] self.ty = "Open" /\ other.ty = "Open" -> unroll_right_Open_Open(self, other)
      [] self.ty = "Open" /\ other.ty = "Closed" -> unroll_right_Open_Closed(self, other)

\* Mutant: an Open-tagged operand is unrolled as a Closed one.
unroll_left_fixed_OpenOrClosed_mut(self, other) ==
    into(unroll_left_fixed(self, Closed(other.v)))

\* impl Unroll<OpenOrClosed<V>> for $other, $other in Open, Closed
unroll_left_fixed_OpenOrClosed(self, other) ==
    IF other.tag = "Open" THEN into(unroll_left_fixed(self, Open(other.v)))
    ELSE into(unroll_left_fixed(self, Closed(other.v)))

unroll_right_fixed_OpenOrClosed(self, other) ==
    IF other.tag = "Open" THEN into(unroll_right_fixed(self, Open(other.v)))
    ELSE into(unroll_right_fixed(self, Closed(other.v)))

\* unroll of an Open or Closed left operand with an Open, Closed or
\* OpenOrClosed right operand
unroll_left_from_fixed(self, other) ==
    IF other.ty = "OpenOrClosed" THEN unroll_left_fixed_OpenOrClosed(self, other)
    ELSE unroll_left_fixed(self, other)

unroll_right_from_fixed(self, other) ==
    IF other.ty = "OpenOrClosed" THEN unroll_right_fixed_OpenOrClosed(self, other)
    ELSE unroll_right_fixed(self, other)

\* impl Unroll<$other> for OpenOrClosed<V> and
\* impl Unroll<OpenOrClosed<V>> for OpenOrClosed<V>: match on self
unroll_left_OpenOrClosed(self, other) ==
    IF self.tag = "Open" THEN into(unroll_left_from_fixed(Open(self.v), other))
    ELSE into(unroll_left_from_fixed(Closed(self.v), other))

unroll_right_OpenOrClosed(self, other) ==
    IF self.tag = "Open" THEN into(unroll_right_from_fixed(Open(self.v), other))
    ELSE into(unroll_right_from_fixed(Closed(self.v), other))

\* Unroll::unroll_left, selected by the operand types
unroll_left(self, other) ==
    CASE self.ty = "NoBound" \/ other.ty = "NoBound" -> unroll_NoBound(self, other)
      [] self.ty = "OpenOrClosed" /\ other.ty # "NoBound" -> unroll_left_OpenOrClosed(self, other)
      [] OTHER -> unroll_left_from_fixed(self, other)

\* Unroll::unroll_right, selected by the operand types
unroll_right(self, other) ==
    CASE self.ty = "NoBound" \/ other.ty = "NoBound" -> unroll_NoBound(self, other)
      [] self.ty = "OpenOrClosed" /\ other.ty # "NoBound" -> unroll_right_OpenOrClosed(self, other)
      [] OTHER -> unroll_right_from_fixed(self, other)

-----------------------------------------------------------------------------
(* Validation.  A ValidationResult is [ok, l, r]: Ok((l, r)) when ok, and  *)
(* Err(DecreasingBounds(l, r)) otherwise.                                  *)

Ok(l, r) == [ok |-> TRUE, l |-> l, r |-> r]

DecreasingBounds(l, r) == [ok |-> FALSE, l |-> l, r |-> r]

\* impl_val! arms 1 and 2, and the NoBound/NoBound impl
validate_NoBound(l, r) == Ok(l, r)

\* Mutant: the Closed/Closed arm rejects equal values.
validate_Closed_Closed_mut(l, r) ==
    IF proper_value(l) >= proper_value(r) THEN DecreasingBounds(l, r) ELSE Ok(l, r)

\* impl_val!(V; Closed<V>, Closed<V>): arm 3
validate_Closed_Closed(l, r) ==
    IF proper_value(l) > proper_value(r) THEN DecreasingBounds(l, r) ELSE Ok(l, r)

\* impl ValidateBounds<Closed<V>, Open<V>>
validate_Closed_Open(l, r) ==
    IF l.v >= r.v THEN DecreasingBounds(l, r) ELSE Ok(l, r)

\* impl ValidateBounds<Open<V>, Closed<V>>
validate_Open_Closed(l, r) ==
    IF l.v >= r.v THEN DecreasingBounds(l, r) ELSE Ok(l, r)

\* impl ValidateBounds<OpenOrClosed<V>, Closed<V>>
validate_OpenOrClosed_Closed(l, r) ==
    LET is_invalid == IF l.tag = "Open" THEN l.v >= r.v ELSE l.v > r.v
    IN  IF is_invalid THEN DecreasingBounds(l, r) ELSE Ok(l, r)

\* impl ValidateBounds<Closed<V>, OpenOrClosed<V>>
validate_Closed_OpenOrClosed(l, r) ==
    LET is_invalid == IF r.tag = "Open" THEN l.v >= r.v ELSE l.v > r.v
    IN  IF is_invalid THEN DecreasingBounds(l, r) ELSE Ok(l, r)

\* impl ValidateBounds<Open<V>, Open<V>>
validate_Open_Open(l, r) ==
    IF l.v >= r.v THEN DecreasingBounds(l, r) ELSE Ok(l, r)

\* impl ValidateBounds<OpenOrClosed<V>, Open<V>>
validate_OpenOrClosed_Open(l, r) ==
    LET is_invalid == l.v >= r.v
    IN  IF is_invalid THEN DecreasingBounds(l, r) ELSE Ok(l, r)

\* impl ValidateBounds<Open<V>, OpenOrClosed<V>>
validate_Open_OpenOrClosed(l, r) ==
    LET is_invalid == l.v >= r.v
    IN  IF is_invalid THEN DecreasingBounds(l, r) ELSE Ok(l, r)

\* impl ValidateBounds<OpenOrClosed<V>, OpenOrClosed<V>>
validate_OpenOrClosed_OpenOrClosed(l, r) ==
    LET is_invalid ==
            IF l.tag = "Closed" /\ r.tag = "Closed" THEN l.v > r.v ELSE l.v >= r.v
    IN  IF is_invalid THEN DecreasingBounds(l, r) ELSE Ok(l, r)

\* bounds::validate: the ValidateBounds impl of the operand types
validate(left, right) ==
    CASE left.ty = "NoBound" \/ right.ty = "NoBound" -> validate_NoBound(left, right)
      [] left.ty = "Closed" /\ right.ty = "Closed" -> validate_Closed_Closed(left, right)
      [] left.ty = "Closed" /\ right.ty = "Open" -> validate_Closed_Open(left, right)
      [] left.ty = "Open" /\ right.ty = "Closed" -> validate_Open_Closed(left, right)
      [] left.ty = "OpenOrClosed" /\ right.ty = "Closed" -> validate_OpenOrClosed_Closed(left, right)
      [] left.ty = "Closed" /\ right.ty = "OpenOrClosed" -> validate_Closed_OpenOrClosed(left, right)
      [] left.ty = "Open" /\ right.ty = "Open" -> validate_Open_Open(left, right)
      [] left.ty = "OpenOrClosed" /\ right.ty = "Open" -> validate_OpenOrClosed_Open(left, right)
      [] left.ty = "Open" /\ right.ty = "OpenOrClosed" -> validate_Open_OpenOrClosed(left, right)
      [] left.ty = "OpenOrClosed" /\ right.ty = "OpenOrClosed" ->
            validate_OpenOrClosed_OpenOrClosed(left, right)

-----------------------------------------------------------------------------
(* Equality of bounds: the PartialEq impls, selected by the operand types *)

\* #[derive(PartialEq)] on NoBound, Open, Closed and OpenOrClosed
eq_derived(a, b) == a.tag = b.tag /\ a.v = b.v

\* Mutant: the variant of self is not looked at.
eq_OpenOrClosed_fixed_mut(self, rhs) == self.v = rhs.v

\* impl PartialEq<Open<V>> for OpenOrClosed<V>, PartialEq<Closed<V>> for
\* OpenOrClosed<V>: the variant of self must be the kind of rhs
eq_OpenOrClosed_fixed(self, rhs) ==
    IF self.tag = rhs.ty THEN self.v = rhs.v ELSE FALSE

\* impl PartialEq<OpenOrClosed<V>> for Open<V> and for Closed<V>
eq_fixed_OpenOrClosed(self, rhs) ==
    IF rhs.tag = self.ty THEN self.v = rhs.v ELSE FALSE

\* PartialEq::eq between two bounds
eq(a, b) ==
    CASE a.ty = b.ty -> eq_derived(a, b)
      [] a.ty # b.ty /\ (a.ty = "NoBound" \/ b.ty = "NoBound") -> FALSE
      [] a.ty = "Open" /\ b.ty = "Closed" -> FALSE
      [] a.ty = "Closed" /\ b.ty = "Open" -> FALSE
      [] a.ty = "OpenOrClosed" /\ b.ty \in {"Open", "Closed"} -> eq_OpenOrClosed_fixed(a, b)
      [] a.ty \in {"Open", "Closed"} /\ b.ty = "OpenOrClosed" -> eq_fixed_OpenOrClosed(a, b)

-----------------------------------------------------------------------------
(* Interval *)

\* struct Interval { left, right }
Interval(left, right) == [left |-> left, right |-> right]

\* impl PartialEq<Interval<LL, RR>> for Interval<L, R>
interval_eq(self, rhs) == eq(self.left, rhs.left) /\ eq(self.right, rhs.right)

\* Mutant: the error carries the two bounds in the wrong order.
IntervalResult_mut(vr) ==
    IF vr.ok THEN [ok |-> TRUE, interval |-> <<Interval(vr.l, vr.r)>>, err |-> <<>>]
    ELSE [ok |-> FALSE, interval |-> <<>>, err |-> <<vr.r, vr.l>>]

\* An IntervalResult: Ok(interval) or Err(DecreasingBounds(l, r))
IntervalResult(vr) ==
    IF vr.ok THEN [ok |-> TRUE, interval |-> <<Interval(vr.l, vr.r)>>, err |-> <<>>]
    ELSE [ok |-> FALSE, interval |-> <<>>, err |-> <<vr.l, vr.r>>]

\* Mutant: the checked constructor skips the validation.
new_mut(left, right) == IntervalResult(Ok(left, right))

\* Interval::new
new(left, right) == IntervalResult(validate(left, right))

\* Interval::new_unchecked
new_unchecked(left, right) == Interval(left, right)

\* Interval::left_bounded
left_bounded(left) == Interval(left, NoBound)

\* Interval::left_open
left_open(left) == Interval(Open(left), NoBound)

\* Interval::left_closed
left_closed(left) == Interval(Closed(left), NoBound)

\* Interval::right_bounded
right_bounded(right) == Interval(NoBound, right)

\* Interval::right_open
right_open(right) == Interval(NoBound, Open(right))

\* Interval::right_closed
right_closed(right) == Interval(NoBound, Closed(right))

\* Interval::lorc
lorc(left, right) == new(Open(left), Closed(right))

\* Interval::lorc_unchecked
lorc_unchecked(left, right) == new_unchecked(Open(left), Closed(right))

\* Interval::lcro
lcro(left, right) == new(Closed(left), Open(right))

\* Interval::lcro_unchecked
lcro_unchecked(left, right) == new_unchecked(Closed(left), Open(right))

\* Interval::unbounded
unbounded == Interval(NoBound, NoBound)

\* Interval::open
open(left, right) == new(Open(left), Open(right))

\* Interval::open_unchecked
open_unchecked(left, right) == new_unchecked(Open(left), Open(right))

\* Interval::closed
closed(left, right) == new(Closed(left), Closed(right))

\* Interval::closed_unchecked
closed_unchecked(left, right) == new_unchecked(Closed(left), Closed(right))

\* Interval::degenerate
degenerate(val) == new_unchecked(Closed(val), Closed(val))

\* Interval::unit, over a domain whose zero() is 0 and whose one() is 1
unit == closed_unchecked(0, 1)

\* Option::ok of an IntervalResult
ok(result) == result.interval

\* Interval::intersect: an Option<Interval>
intersect(self, other) ==
    LET left == pinch_left(self.left, other.left)
        right == pinch_right(self.right, other.right)
    IN  ok(new(left, right))

\* Mutant: the bounds are not required to be closed.
is_degenerate_mut(self) ==
    IF value(self.left) # <<>> /\ value(self.right) # <<>>
    THEN value(self.left)[1] = value(self.right)[1]
    ELSE FALSE

\* Interval::is_degenerate
is_degenerate(self) ==
    IF value(self.left) # <<>> /\ value(self.right) # <<>>
         /\ is_closed(self.left) /\ is_closed(self.right)
    THEN value(self.left)[1] = value(self.right)[1]
    ELSE FALSE

\* Interval::union_closure: unroll both sides, then include the limit points;
\* built without validation
union_closure(self, other) ==
    LET left == unroll_left(self.left, other.left)
        right == unroll_right(self.right, other.right)
    IN  new_unchecked(with_limit_point(left), with_limit_point(right))

-----------------------------------------------------------------------------
(* Contains: one impl per pair of bound types *)

\* The (left type, right type) pairs for which Interval<L, R>: Contains<L, R>
ContainsImpls ==
    { <<"NoBound", "NoBound">>, <<"Open", "Open">>, <<"Open", "NoBound">>,
      <<"NoBound", "Open">>, <<"Closed", "Closed">>, <<"Closed", "NoBound">>,
      <<"Closed", "Open">>, <<"Open", "Closed">>,
      <<"NoBound", "OpenOrClosed">>, <<"Open", "OpenOrClosed">>,
      <<"Closed", "OpenOrClosed">>, <<"OpenOrClosed", "NoBound">>,
      <<"OpenOrClosed", "Open">>, <<"OpenOrClosed", "Closed">> }

contains_NoBound_NoBound(self, val) == TRUE

contains_Open_Open(self, val) == val > self.left.v /\ val < self.right.v

contains_Open_NoBound(self, val) == val > self.left.v

contains_NoBound_Open(self, val) == val < self.right.v

contains_Closed_Closed(self, val) == val >= self.left.v /\ val <= self.right.v

contains_Closed_NoBound(self, val) == val >= self.left.v

contains_Closed_Open(self, val) == val >= self.left.v /\ val < self.right.v

contains_Open_Closed(self, val) == val > self.left.v /\ val <= self.right.v

contains_NoBound_OpenOrClosed(self, val) ==
    IF self.right.tag = "Open" THEN val < self.right.v ELSE val <= self.right.v

contains_Open_OpenOrClosed(self, val) ==
    val > self.left.v
      /\ IF self.right.tag = "Open" THEN val > self.right.v ELSE val <= self.right.v

contains_Closed_OpenOrClosed(self, val) ==
    val >= self.left.v
      /\ IF self.right.tag = "Open" THEN val > self.right.v ELSE val <= self.right.v

contains_OpenOrClosed_NoBound(self, val) ==
    IF self.left.tag = "Open" THEN val > self.left.v ELSE val >= self.left.v

contains_OpenOrClosed_Open(self, val) ==
    val < self.right.v
      /\ IF self.left.tag = "Open" THEN val > self.left.v ELSE val >= self.left.v

contains_OpenOrClosed_Closed(self, val) ==
    val <= self.right.v
      /\ IF self.left.tag = "Open" THEN val > self.left.v ELSE val >= self.left.v

\* Interval::contains, for Self: Contains<L, R>
contains(self, val) ==
    LET L == self.left.ty
        R == self.right.ty
    IN  CASE L = "NoBound" /\ R = "NoBound" -> contains_NoBound_NoBound(self, val)
          [] L = "Open" /\ R = "Open" -> contains_Open_Open(self, val)
          [] L = "Open" /\ R = "NoBound" -> contains_Open_NoBound(self, val)
          [] L = "NoBound" /\ R = "Open" -> contains_NoBound_Open(self, val)
          [] L = "Closed" /\ R = "Closed" -> contains_Closed_Closed(self, val)
          [] L = "Closed" /\ R = "NoBound" -> contains_Closed_NoBound(self, val)
          [] L = "Closed" /\ R = "Open" -> contains_Closed_Open(self, val)
          [] L = "Open" /\ R = "Closed" -> contains_Open_Closed(self, val)
          [] L = "NoBound" /\ R = "OpenOrClosed" -> contains_NoBound_OpenOrClosed(self, val)
          [] L = "Open" /\ R = "OpenOrClosed" -> contains_Open_OpenOrClosed(self, val)
          [] L = "Closed" /\ R = "OpenOrClosed" -> contains_Closed_OpenOrClosed(self, val)
          [] L = "OpenOrClosed" /\ R = "NoBound" -> contains_OpenOrClosed_NoBound(self, val)
          [] L = "OpenOrClosed" /\ R = "Open" -> contains_OpenOrClosed_Open(self, val)
          [] L = "OpenOrClosed" /\ R = "Closed" -> contains_OpenOrClosed_Closed(self, val)

-----------------------------------------------------------------------------
(* Partitions.  The value type V of a partition is f64, as in the crate's   *)
(* own uses of Uniform.  A finite f64 with an integral value is modelled by *)
(* that integer; NaN is the one value no comparison orders.  The partitions *)
(* of the model are those on which f64 arithmetic is exact: the width of a  *)
(* Uniform partition is integral.                                           *)
(* usize has UsizeBits bits.  A call either returns a value or panics.      *)
(***************************************************************************)

\* Largest value of an edge of a Uniform partition and of a value looked up
\* in it
MaxPoint == 4

\* Largest finite breakpoint of a Declarative partition
MaxBreak == 2

\* Largest Uniform::size
MaxSize == 3

\* Largest N of a Declarative<N, V>
MaxN == 6

\* Width of usize in bits
UsizeBits == 8

NaN == 0 - 1

Points == 0..MaxPoint

\* The f64 values of the breakpoints and of the values looked up among them
F64 == (0..MaxBreak) \cup {NaN}

\* PartialOrd::partial_cmp of f64, an Option<Ordering>
partial_cmp(a, b) ==
    IF a = NaN \/ b = NaN THEN <<>>
    ELSE IF a < b THEN <<"Less">>
    ELSE IF a = b THEN <<"Equal">>
    ELSE <<"Greater">>

\* PartialOrd::le: a <= b
le(a, b) == partial_cmp(a, b) \in {<<"Less">>, <<"Equal">>}

\* PartialOrd::lt: a < b
lt(a, b) == partial_cmp(a, b) = <<"Less">>

\* PartialEq::eq of f64: a == b
f64_eq(a, b) == partial_cmp(a, b) = <<"Equal">>

\* A call that returns val
Returns(val) == [panicked |-> FALSE, val |-> <<val>>, msg |-> ""]

\* A call that panics
Panics(msg) == [panicked |-> TRUE, val |-> <<>>, msg |-> msg]

\* usize - usize: with overflow checks (a debug build) an underflow panics,
\* without them (a release build) it wraps.
usize_sub(a, b, overflow_checks) ==
    IF a >= b THEN Returns(a - b)
    ELSE IF overflow_checks THEN Panics("attempt to subtract with overflow")
    ELSE Returns((a - b) % (2 ^ UsizeBits))

\* struct SubInterval { index, interval: Interval<Closed, OpenOrClosed> }
SubInterval(index, interval) == [index |-> index, interval |-> interval]

\* struct Uniform { size, left, right }
Uniform(size, left, right) ==
    [type |-> "Uniform", size |-> size, left |-> left, right |-> right, p |-> <<>>]

\* Uniform::partition_width: range / NumCast::from(size).unwrap(), an f64
\* division; exact for the partitions of the model when size > 0.  The
\* quotient is finite (n), or by a zero size infinite (of sign n) or NaN.
partition_width(self) ==
    LET range == self.right - self.left
    IN  IF self.size # 0 THEN [class |-> "finite", n |-> range \div self.size]
        ELSE IF range > 0 THEN [class |-> "infinite", n |-> 1]
        ELSE IF range < 0 THEN [class |-> "infinite", n |-> 0 - 1]
        ELSE [class |-> "nan", n |-> 0]

\* NumCast::from(diff / width) of Uniform::index, an Option<usize>: the f64
\* quotient truncated toward zero, None when it is NaN, infinite, or not
\* above -1.  diff is finite.
quotient_to_usize(diff, width) ==
    CASE width.class = "nan" -> <<>>
      [] width.class = "infinite" -> <<0>>
      [] width.class = "finite" /\ width.n = 0 -> <<>>
      [] width.class = "finite" /\ width.n > 0 ->
            IF diff >= 0 THEN <<diff \div width.n>>
            ELSE IF 0 - diff < width.n THEN <<0>> ELSE <<>>
      [] width.class = "finite" /\ width.n < 0 ->
            IF diff <= 0 THEN <<(0 - diff) \div (0 - width.n)>>
            ELSE IF diff < 0 - width.n THEN <<0>> ELSE <<>>

\* <Uniform as Partition>::len
Uniform_len(self) == Returns(self.size)

\* Mutant: a value equal to right is not special-cased.
Uniform_index_mut(self, val, overflow_checks) ==
    IF val < self.left \/ val > self.right THEN Returns(<<>>)
    ELSE LET diff == val - self.left
             width == partition_width(self)
         IN  Returns(quotient_to_usize(diff, width))

\* <Uniform as Partition>::index
Uniform_index(self, val, overflow_checks) ==
    IF val < self.left \/ val > self.right THEN Returns(<<>>)
    ELSE IF val = self.right
    THEN LET last == usize_sub(self.size, 1, overflow_checks)
         IN  IF last.panicked THEN last ELSE Returns(<<last.val[1]>>)
    ELSE LET diff == val - self.left
             width == partition_width(self)
         IN  Returns(quotient_to_usize(diff, width))

\* <Uniform as Partition>::subinterval
Uniform_subinterval(self, k) ==
    IF k < self.size
    THEN LET width == partition_width(self).n
         IN  Returns(<<SubInterval(k,
                 Interval(Closed(self.left),
                          IF k = self.size - 1
                          THEN OpenOrClosed_Closed(self.left + width)
                          ELSE OpenOrClosed_Open(self.left + width)))>>)
    ELSE Returns(<<>>)

\* struct Declarative<const N: usize, V>([V; N]); N is the length of p
Declarative(bounds) ==
    [type |-> "Declarative", size |-> 0, left |-> 0, right |-> 0, p |-> bounds]

\* The const parameter N of a Declarative<N, V>
N(self) == Len(self.p)

\* Result<Declarative, PartitionError>::Ok
PartitionOk(partition) == [ok |-> TRUE, partition |-> <<partition>>, err |-> <<>>]

\* PartitionError::IllFormedBounds(bounds)
IllFormedBounds(bounds) == [ok |-> FALSE, partition |-> <<>>, err |-> <<bounds>>]

\* Mutant: equal neighbours are rejected.
Declarative_new_mut(bounds) ==
    IF \A i \in 1..(Len(bounds) - 1) : lt(bounds[i], bounds[i + 1])
    THEN PartitionOk(Declarative(bounds))
    ELSE IllFormedBounds(bounds)

\* Declarative::new
Declarative_new(bounds) ==
    IF \A i \in 1..(Len(bounds) - 1) : le(bounds[i], bounds[i + 1])
    THEN PartitionOk(Declarative(bounds))
    ELSE IllFormedBounds(bounds)

\* self.0[i], a bounds-checked read of the array (i counts from 0)
at(self, i) ==
    IF i < N(self) THEN Returns(self.p[i + 1])
    ELSE Panics("index out of bounds")

\* <Declarative as Partition>::len: N - 2
Declarative_len(self, overflow_checks) == usize_sub(N(self), 2, overflow_checks)

\* <Declarative as Partition>::index up to the call of binary_search: the
\* returned Option<usize>, a panic, or no value yet (the search starts)
Declarative_index(self, val, overflow_checks) ==
    LET last == usize_sub(N(self), 1, overflow_checks)
        final == IF last.panicked THEN last ELSE at(self, last.val[1])
    IN  IF final.panicked THEN [final EXCEPT !.val = <<>>]
        ELSE IF f64_eq(val, final.val[1])
        THEN LET k == usize_sub(N(self), 2, overflow_checks)
             IN  IF k.panicked THEN k ELSE Returns(<<k.val[1]>>)
        ELSE [panicked |-> FALSE, val |-> <<>>, msg |-> "binary_search"]

\* Mutant: an undefined comparison narrows the range instead of ending the
\* search.
binary_search_mut(bounds, val, low, high) ==
    LET middle == (low + high) \div 2
        l == partial_cmp(bounds[middle + 1], val)
        r == partial_cmp(bounds[middle + 2], val)
        Return(opt) == [done |-> TRUE, result |-> opt, low |-> low, high |-> high]
    IN  IF ~(low < high) THEN Return(<<>>)
        ELSE IF l # <<>> /\ r # <<>>
        THEN IF l[1] \in {"Less", "Equal"}
             THEN CASE r[1] = "Greater" -> Return(<<middle>>)
                    [] r[1] = "Equal" -> Return(<<middle + 1>>)
                    [] OTHER -> [done |-> FALSE, result |-> <<>>,
                                 low |-> middle, high |-> high]
             ELSE [done |-> FALSE, result |-> <<>>, low |-> low, high |-> middle]
        ELSE [done |-> FALSE, result |-> <<>>, low |-> low, high |-> middle]

\* binary_search: the loop test and one iteration, from the locals low and
\* high.  done: the function returns result; otherwise the new low and high.
binary_search(bounds, val, low, high) ==
    LET middle == (low + high) \div 2
        l == partial_cmp(bounds[middle + 1], val)
        r == partial_cmp(bounds[middle + 2], val)
        Return(opt) == [done |-> TRUE, result |-> opt, low |-> low, high |-> high]
    IN  IF ~(low < high) THEN Return(<<>>)
        ELSE IF l # <<>> /\ r # <<>>
        THEN IF l[1] \in {"Less", "Equal"}
             THEN CASE r[1] = "Greater" -> Return(<<middle>>)
                    [] r[1] = "Equal" -> Return(<<middle + 1>>)
                    [] OTHER -> [done |-> FALSE, result |-> <<>>,
                                 low |-> middle, high |-> high]
             ELSE [done |-> FALSE, result |-> <<>>, low |-> low, high |-> middle]
        ELSE Return(<<>>)

\* <Declarative as Partition>::subinterval
Declarative_subinterval(self, k, overflow_checks) ==
    LET left == at(self, k)
        last == usize_sub(N(self), 1, overflow_checks)
        right == at(self, k + 1)
    IN  IF left.panicked THEN left
        ELSE IF last.panicked THEN last
        ELSE IF right.panicked THEN right
        ELSE Returns(<<SubInterval(k,
                 Interval(Closed(left.val[1]),
                          IF k = last.val[1]
                          THEN OpenOrClosed_Closed(right.val[1])
                          ELSE OpenOrClosed_Open(right.val[1])))>>)

-----------------------------------------------------------------------------
(* The state machine: a client that calls the library.                     *)
(*   x    : the interval the client currently holds (the latest interval   *)
(*          a call returned)                                               *)
(*   call : the last call: its name and its arguments                      *)
(*            l, r        bound arguments                                  *)
(*            a, b        value arguments                                  *)
(*            self, other interval operands                                *)
(*   ret  : what the last call returned                                    *)
(*            interval    Some/Ok interval, as a sequence of length <= 1   *)
(*            err         <<l, r>> of Err(DecreasingBounds(l, r))          *)
(*            pair        <<l, r>> of a ValidationResult's Ok((l, r))      *)
(*            bound       the bound a pinch returned                       *)
(*            flag        the bool a predicate returned                    *)
(* Between two calls the client drops the record of the previous call (the *)
(* returned temporaries go out of scope); it keeps x.                      *)
(*                                                                         *)
(* A client of the partitions builds one partition and then queries it:    *)
(*   part  : the partition the client holds, if it has built one           *)
(*   pcall : the last partition call: its name, its arguments              *)
(*            bounds      the array given to Declarative::new              *)
(*            val         the value given to index and digitise            *)
(*            k           the index given to subinterval                   *)
(*           and, while binary_search runs, its locals low and high        *)
(*   pret  : the state of that call: running, returned or panicked, and    *)
(*           what it returned                                              *)
(*            len         the usize of len(), as a sequence                *)
(*            index       the Option<usize> of index()                     *)
(*            sub         the Option<SubInterval> of subinterval() and     *)
(*                        digitise()                                       *)
(*            err         <<bounds>> of Err(IllFormedBounds(bounds))       *)
(***************************************************************************)
VARIABLES x, call, ret, part, pcall, pret

vars == <<x, call, ret, part, pcall, pret>>

\* The variables of the partition client
pvars == <<part, pcall, pret>>

\* The variables of the interval client
ivars == <<x, call, ret>>

\* The client has built no partition.
NoPartition == [type |-> "none", size |-> 0, left |-> 0, right |-> 0, p |-> <<>>]

NoQuery == [op |-> "none", bounds |-> <<>>, val |-> 0, k |-> 0, low |-> 0, high |-> 0]

NoOutcome ==
    [kind |-> "none", len |-> <<>>, index |-> <<>>, sub |-> <<>>, err |-> <<>>,
     msg |-> ""]

\* Every Interval value of the model's bound domain
Intervals == {Interval(l, r) : l \in Bounds, r \in Bounds}

NoCall ==
    [op |-> "none", l |-> NoBound, r |-> NoBound, a |-> 0, b |-> 0,
     self |-> unbounded, other |-> unbounded]

NoRet ==
    [kind |-> "none", interval |-> <<>>, err |-> <<>>, pair |-> <<>>,
     bound |-> <<>>, flag |-> FALSE]

Init ==
    /\ x = unbounded
    /\ call = NoCall
    /\ ret = NoRet
    /\ part = NoPartition
    /\ pcall = NoQuery
    /\ pret = NoOutcome

\* The client is between two calls.
Idle == call.op = "none"

\* A call that returns an Interval: the client holds the returned interval.
ReturnInterval(c, i) ==
    /\ Idle
    /\ call' = c
    /\ ret' = [NoRet EXCEPT !.kind = "Interval", !.interval = <<i>>]
    /\ x' = i
    /\ UNCHANGED pvars

\* A call that returns an IntervalResult: on Ok the client holds the
\* interval, on Err it keeps the one it had.
ReturnIntervalResult(c, result) ==
    /\ Idle
    /\ call' = c
    /\ ret' = [NoRet EXCEPT !.kind = "IntervalResult",
                            !.interval = result.interval, !.err = result.err]
    /\ x' = IF result.ok THEN result.interval[1] ELSE x
    /\ UNCHANGED pvars

\* A call that returns an Option<Interval>
ReturnOption(c, opt) ==
    /\ Idle
    /\ call' = c
    /\ ret' = [NoRet EXCEPT !.kind = "Option", !.interval = opt]
    /\ x' = IF Len(opt) = 1 THEN opt[1] ELSE x
    /\ UNCHANGED pvars

New(l, r) ==
    ReturnIntervalResult([NoCall EXCEPT !.op = "new", !.l = l, !.r = r], new(l, r))

NewUnchecked(l, r) ==
    ReturnInterval([NoCall EXCEPT !.op = "new_unchecked", !.l = l, !.r = r],
                   new_unchecked(l, r))

LeftBounded(l) ==
    ReturnInterval([NoCall EXCEPT !.op = "left_bounded", !.l = l], left_bounded(l))

LeftOpen(a) ==
    ReturnInterval([NoCall EXCEPT !.op = "left_open", !.a = a], left_open(a))

LeftClosed(a) ==
    ReturnInterval([NoCall EXCEPT !.op = "left_closed", !.a = a], left_closed(a))

RightBounded(r) ==
    ReturnInterval([NoCall EXCEPT !.op = "right_bounded", !.r = r], right_bounded(r))

RightOpen(b) ==
    ReturnInterval([NoCall EXCEPT !.op = "right_open", !.b = b], right_open(b))

RightClosed(b) ==
    ReturnInterval([NoCall EXCEPT !.op = "right_closed", !.b = b], right_closed(b))

Lorc(a, b) ==
    ReturnIntervalResult([NoCall EXCEPT !.op = "lorc", !.a = a, !.b = b], lorc(a, b))

LorcUnchecked(a, b) ==
    ReturnInterval([NoCall EXCEPT !.op = "lorc_unchecked", !.a = a, !.b = b],
                   lorc_unchecked(a, b))

Lcro(a, b) ==
    ReturnIntervalResult([NoCall EXCEPT !.op = "lcro", !.a = a, !.b = b], lcro(a, b))

LcroUnchecked(a, b) ==
    ReturnInterval([NoCall EXCEPT !.op = "lcro_unchecked", !.a = a, !.b = b],
                   lcro_unchecked(a, b))

UnboundedNew ==
    ReturnInterval([NoCall EXCEPT !.op = "unbounded"], unbounded)

OpenNew(a, b) ==
    ReturnIntervalResult([NoCall EXCEPT !.op = "open", !.a = a, !.b = b], open(a, b))

OpenUnchecked(a, b) ==
    ReturnInterval([NoCall EXCEPT !.op = "open_unchecked", !.a = a, !.b = b],
                   open_unchecked(a, b))

ClosedNew(a, b) ==
    ReturnIntervalResult([NoCall EXCEPT !.op = "closed", !.a = a, !.b = b], closed(a, b))

ClosedUnchecked(a, b) ==
    ReturnInterval([NoCall EXCEPT !.op = "closed_unchecked", !.a = a, !.b = b],
                   closed_unchecked(a, b))

Degenerate(a) ==
    ReturnInterval([NoCall EXCEPT !.op = "degenerate", !.a = a], degenerate(a))

Unit ==
    ReturnInterval([NoCall EXCEPT !.op = "unit"], unit)

\* x.intersect(other)
Intersect(other) ==
    ReturnOption([NoCall EXCEPT !.op = "intersect", !.self = x, !.other = other],
                 intersect(x, other))

\* x.union_closure(other)
UnionClosure(other) ==
    ReturnInterval([NoCall EXCEPT !.op = "union_closure", !.self = x, !.other = other],
                   union_closure(x, other))

\* x.contains(a); offered only where Interval<L, R>: Contains<L, R>
Contains(a) ==
    /\ Idle
    /\ <<x.left.ty, x.right.ty>> \in ContainsImpls
    /\ call' = [NoCall EXCEPT !.op = "contains", !.self = x, !.a = a]
    /\ ret' = [NoRet EXCEPT !.kind = "bool", !.flag = contains(x, a)]
    /\ x' = x
    /\ UNCHANGED pvars

\* bounds::validate(l, r)
Validate(l, r) ==
    LET vr == validate(l, r)
    IN  /\ Idle
        /\ call' = [NoCall EXCEPT !.op = "validate", !.l = l, !.r = r]
        /\ ret' = [NoRet EXCEPT !.kind = "ValidationResult",
                                !.pair = IF vr.ok THEN <<vr.l, vr.r>> ELSE <<>>,
                                !.err = IF vr.ok THEN <<>> ELSE <<vr.l, vr.r>>]
        /\ x' = x
        /\ UNCHANGED pvars

\* l.pinch_left(r)
PinchLeft(l, r) ==
    /\ Idle
    /\ call' = [NoCall EXCEPT !.op = "pinch_left", !.l = l, !.r = r]
    /\ ret' = [NoRet EXCEPT !.kind = "Bound", !.bound = <<pinch_left(l, r)>>]
    /\ x' = x
    /\ UNCHANGED pvars

\* l.pinch_right(r)
PinchRight(l, r) ==
    /\ Idle
    /\ call' = [NoCall EXCEPT !.op = "pinch_right", !.l = l, !.r = r]
    /\ ret' = [NoRet EXCEPT !.kind = "Bound", !.bound = <<pinch_right(l, r)>>]
    /\ x' = x
    /\ UNCHANGED pvars

\* l.unroll_left(r)
UnrollLeft(l, r) ==
    /\ Idle
    /\ call' = [NoCall EXCEPT !.op = "unroll_left", !.l = l, !.r = r]
    /\ ret' = [NoRet EXCEPT !.kind = "Bound", !.bound = <<unroll_left(l, r)>>]
    /\ x' = x
    /\ UNCHANGED pvars

\* l.unroll_right(r)
UnrollRight(l, r) ==
    /\ Idle
    /\ call' = [NoCall EXCEPT !.op = "unroll_right", !.l = l, !.r = r]
    /\ ret' = [NoRet EXCEPT !.kind = "Bound", !.bound = <<unroll_right(l, r)>>]
    /\ x' = x
    /\ UNCHANGED pvars

\* x.is_degenerate()
IsDegenerate ==
    /\ Idle
    /\ call' = [NoCall EXCEPT !.op = "is_degenerate", !.self = x]
    /\ ret' = [NoRet EXCEPT !.kind = "bool", !.flag = is_degenerate(x)]
    /\ x' = x
    /\ UNCHANGED pvars

\* l == r, between two bounds
BoundEq(l, r) ==
    /\ Idle
    /\ call' = [NoCall EXCEPT !.op = "bound_eq", !.l = l, !.r = r]
    /\ ret' = [NoRet EXCEPT !.kind = "bool", !.flag = eq(l, r)]
    /\ x' = x
    /\ UNCHANGED pvars

\* x == other, between two intervals
IntervalEq(other) ==
    /\ Idle
    /\ call' = [NoCall EXCEPT !.op = "interval_eq", !.self = x, !.other = other]
    /\ ret' = [NoRet EXCEPT !.kind = "bool", !.flag = interval_eq(x, other)]
    /\ x' = x
    /\ UNCHANGED pvars

\* The returned value and the arguments go out of scope.
Drop ==
    /\ ~Idle
    /\ call' = NoCall
    /\ ret' = NoRet
    /\ x' = x
    /\ UNCHANGED pvars

\* Any one call of the library while the client is idle, or the drop of the
\* previous call's temporaries.
Next ==
    \/ Idle /\ \E l \in Bounds, r \in Bounds : New(l, r)
    \/ Idle /\ \E l \in Bounds, r \in Bounds : NewUnchecked(l, r)
    \/ Idle /\ \E l \in Bounds : LeftBounded(l)
    \/ Idle /\ \E a \in Vals : LeftOpen(a)
    \/ Idle /\ \E a \in Vals : LeftClosed(a)
    \/ Idle /\ \E r \in Bounds : RightBounded(r)
    \/ Idle /\ \E b \in Vals : RightOpen(b)
    \/ Idle /\ \E b \in Vals : RightClosed(b)
    \/ Idle /\ \E a \in Vals, b \in Vals : Lorc(a, b)
    \/ Idle /\ \E a \in Vals, b \in Vals : LorcUnchecked(a, b)
    \/ Idle /\ \E a \in Vals, b \in Vals : Lcro(a, b)
    \/ Idle /\ \E a \in Vals, b \in Vals : LcroUnchecked(a, b)
    \/ Idle /\ UnboundedNew
    \/ Idle /\ \E a \in Vals, b \in Vals : OpenNew(a, b)
    \/ Idle /\ \E a \in Vals, b \in Vals : OpenUnchecked(a, b)
    \/ Idle /\ \E a \in Vals, b \in Vals : ClosedNew(a, b)
    \/ Idle /\ \E a \in Vals, b \in Vals : ClosedUnchecked(a, b)
    \/ Idle /\ \E a \in Vals : Degenerate(a)
    \/ Idle /\ Unit
    \/ Idle /\ \E other \in Intervals : Intersect(other)
    \/ Idle /\ \E other \in Intervals : UnionClosure(other)
    \/ Idle /\ \E a \in Vals : Contains(a)
    \/ Idle /\ \E l \in Bounds, r \in Bounds : Validate(l, r)
    \/ Idle /\ \E l \in Bounds, r \in Bounds : PinchLeft(l, r)
    \/ Idle /\ \E l \in Bounds, r \in Bounds : PinchRight(l, r)
    \/ Idle /\ \E l \in Bounds, r \in Bounds : UnrollLeft(l, r)
    \/ Idle /\ \E l \in Bounds, r \in Bounds : UnrollRight(l, r)
    \/ Idle /\ IsDegenerate
    \/ Idle /\ \E l \in Bounds, r \in Bounds : BoundEq(l, r)
    \/ Idle /\ \E other \in Intervals : IntervalEq(other)
    \/ Drop

Spec == Init /\ [][Next]_vars

-----------------------------------------------------------------------------
(* The client of the partitions *)

\* Largest N of an array given to Declarative::new_unchecked
MaxUncheckedN == 3

\* Every [V; N] of the model
Arrays(maxN) == UNION {[1..n -> F64] : n \in 0..maxN}

\* The client is between two partition calls.
PIdle == pcall.op = "none"

\* The outcome of a call that returned val in the field of its return type,
\* or panicked
Outcome(result, field) ==
    IF result.panicked
    THEN [NoOutcome EXCEPT !.kind = "panicked", !.msg = result.msg]
    ELSE CASE field = "len" -> [NoOutcome EXCEPT !.kind = "returned", !.len = result.val]
           [] field = "index" ->
                [NoOutcome EXCEPT !.kind = "returned", !.index = result.val[1]]
           [] field = "sub" ->
                [NoOutcome EXCEPT !.kind = "returned", !.sub = result.val[1]]

\* The outcome of Partition::digitise, index(value).and_then(|k|
\* self.subinterval(k)), from the outcome of index
DigitiseOutcome(self, index, overflow_checks) ==
    LET subinterval(k) ==
            IF self.type = "Uniform" THEN Uniform_subinterval(self, k)
            ELSE Declarative_subinterval(self, k, overflow_checks)
        and_then == IF index.val[1] = <<>> THEN Returns(<<>>)
                    ELSE subinterval(index.val[1][1])
    IN  IF index.panicked THEN Outcome(index, "sub")
        ELSE [Outcome(and_then, "sub") EXCEPT !.index = index.val[1]]

\* let part = Uniform { size, left, right };
UniformLiteral(size, left, right) ==
    /\ PIdle
    /\ part = NoPartition
    /\ part' = Uniform(size, left, right)
    /\ pcall' = [NoQuery EXCEPT !.op = "Uniform"]
    /\ pret' = [NoOutcome EXCEPT !.kind = "returned"]
    /\ UNCHANGED ivars

\* Declarative::new(bounds): on Ok the client holds the partition
DeclarativeNew(bounds) ==
    LET result == Declarative_new(bounds)
    IN  /\ PIdle
        /\ part = NoPartition
        /\ part' = IF result.ok THEN result.partition[1] ELSE part
        /\ pcall' = [NoQuery EXCEPT !.op = "new", !.bounds = bounds]
        /\ pret' = [NoOutcome EXCEPT !.kind = "returned", !.err = result.err]
        /\ UNCHANGED ivars

\* Declarative::new_unchecked(bounds)
DeclarativeNewUnchecked(bounds) ==
    /\ PIdle
    /\ part = NoPartition
    /\ part' = Declarative(bounds)
    /\ pcall' = [NoQuery EXCEPT !.op = "new_unchecked", !.bounds = bounds]
    /\ pret' = [NoOutcome EXCEPT !.kind = "returned"]
    /\ UNCHANGED ivars

\* part.len()
PartitionLen(overflow_checks) ==
    /\ PIdle
    /\ part # NoPartition
    /\ pcall' = [NoQuery EXCEPT !.op = "len"]
    /\ pret' = Outcome(IF part.type = "Uniform" THEN Uniform_len(part)
                       ELSE Declarative_len(part, overflow_checks), "len")
    /\ UNCHANGED <<part, ivars>>

\* part.subinterval(k)
PartitionSubinterval(k, overflow_checks) ==
    /\ PIdle
    /\ part # NoPartition
    /\ pcall' = [NoQuery EXCEPT !.op = "subinterval", !.k = k]
    /\ pret' = Outcome(IF part.type = "Uniform" THEN Uniform_subinterval(part, k)
                       ELSE Declarative_subinterval(part, k, overflow_checks), "sub")
    /\ UNCHANGED <<part, ivars>>

\* part.index(val) and part.digitise(val) of a Uniform partition
UniformQuery(op, val, overflow_checks) ==
    /\ PIdle
    /\ part.type = "Uniform"
    /\ pcall' = [NoQuery EXCEPT !.op = op, !.val = val]
    /\ pret' = IF op = "index"
               THEN Outcome(Uniform_index(part, val, overflow_checks), "index")
               ELSE DigitiseOutcome(part, Uniform_index(part, val, overflow_checks),
                                    overflow_checks)
    /\ UNCHANGED <<part, ivars>>

\* part.index(val) and part.digitise(val) of a Declarative partition, up to
\* the return of index or the entry of binary_search with low = 0 and
\* high = N - 1
DeclarativeQuery(op, val, overflow_checks) ==
    LET index == Declarative_index(part, val, overflow_checks)
    IN  /\ PIdle
        /\ part.type = "Declarative"
        /\ IF index.msg = "binary_search"
           THEN /\ pcall' = [NoQuery EXCEPT !.op = op, !.val = val, !.low = 0,
                                            !.high = N(part) - 1]
                /\ pret' = [NoOutcome EXCEPT !.kind = "running"]
           ELSE /\ pcall' = [NoQuery EXCEPT !.op = op, !.val = val]
                /\ pret' = IF op = "index" THEN Outcome(index, "index")
                           ELSE DigitiseOutcome(part, index, overflow_checks)
        /\ UNCHANGED <<part, ivars>>

\* The loop of binary_search: the loop test and one iteration.  When the
\* function returns, index returns its result and digitise goes on to
\* subinterval.
BinarySearch(overflow_checks) ==
    LET step == binary_search(part.p, pcall.val, pcall.low, pcall.high)
    IN  /\ pret.kind = "running"
        /\ IF step.done
           THEN /\ pcall' = pcall
                /\ pret' = IF pcall.op = "index"
                           THEN Outcome(Returns(step.result), "index")
                           ELSE DigitiseOutcome(part, Returns(step.result),
                                                overflow_checks)
           ELSE /\ pcall' = [pcall EXCEPT !.low = step.low, !.high = step.high]
                /\ pret' = pret
        /\ UNCHANGED <<part, ivars>>

\* The returned value and the arguments go out of scope.  (A panic ends the
\* client.)
PartitionDrop ==
    /\ pret.kind = "returned"
    /\ pcall' = NoQuery
    /\ pret' = NoOutcome
    /\ UNCHANGED <<part, ivars>>

\* The construction of the partition, any one query of it, a step of a
\* running query, or the drop of the previous call's temporaries
PartitionNext ==
    \/ PIdle /\ \E size \in 0..MaxSize, left \in Points, right \in Points :
                  /\ size # 0 => (right - left) % size = 0
                  /\ UniformLiteral(size, left, right)
    \/ PIdle /\ \E bounds \in Arrays(MaxN) : DeclarativeNew(bounds)
    \/ PIdle /\ \E bounds \in Arrays(MaxUncheckedN) : DeclarativeNewUnchecked(bounds)
    \/ PIdle /\ \E oc \in BOOLEAN : PartitionLen(oc)
    \/ PIdle /\ \E k \in 0..MaxN, oc \in BOOLEAN : PartitionSubinterval(k, oc)
    \/ PIdle /\ \E val \in Points, oc \in BOOLEAN : UniformQuery("index", val, oc)
    \/ PIdle /\ \E val \in Points, oc \in BOOLEAN : UniformQuery("digitise", val, oc)
    \/ PIdle /\ \E val \in F64, oc \in BOOLEAN : DeclarativeQuery("index", val, oc)
    \/ PIdle /\ \E val \in F64, oc \in BOOLEAN : DeclarativeQuery("digitise", val, oc)
    \/ \E oc \in BOOLEAN : BinarySearch(oc)
    \/ PartitionDrop

PartitionSpec == Init /\ [][PartitionNext]_vars

-----------------------------------------------------------------------------
(* Properties *)

\* The bound carries a value (it is not Unbounded).
HasValue(b) == b.tag # "None"

\* The ordering rule as the specification words it, by the current tags: a
\* pair touching Unbounded is legal; two closed bounds need l <= r; a pair
\* with an open bound needs l < r.
OrderingRule(l, r) ==
    \/ ~HasValue(l)
    \/ ~HasValue(r)
    \/ IF l.tag = "Closed" /\ r.tag = "Closed" THEN l.v <= r.v ELSE l.v < r.v

OrderingInvariant(i) == OrderingRule(i.left, i.right)

Max(a, b) == IF a >= b THEN a ELSE b

Min(a, b) == IF a <= b THEN a ELSE b

\* C1: validate(l, r) is Ok for every pair with an Unbounded side; for two
\* value-carrying bounds it is Err exactly when (both closed and l > r) or
\* (at least one open and l >= r); the result is Ok((l, r)) or
\* Err(DecreasingBounds(l, r)), never both.
C1_ValidateRule ==
    call.op = "validate" =>
        LET l == call.l
            r == call.r
            isErr == Len(ret.err) = 2
            isOk == Len(ret.pair) = 2
            bothClosed == l.tag = "Closed" /\ r.tag = "Closed"
            someOpen == l.tag = "Open" \/ r.tag = "Open"
        IN  /\ isErr # isOk
            /\ (~HasValue(l) \/ ~HasValue(r)) => isOk
            /\ (HasValue(l) /\ HasValue(r)) =>
                  (isErr <=> \/ bothClosed /\ l.v > r.v
                             \/ someOpen /\ l.v >= r.v)

\* C1 witness: equal values are accepted when both sides are closed (one of
\* them a dynamic union tagged Closed).
C1_Witness ==
    /\ call.op = "validate"
    /\ call.l = OpenOrClosed_Closed(1)
    /\ call.r = Closed(1)
    /\ ret.pair = <<call.l, call.r>>

\* C2: intersect is commutative: A.intersect(B) and B.intersect(A) are both
\* absent, or both present with equal bounds (same value and same
\* classification on each side).
C2_IntersectCommutes ==
    call.op = "intersect" =>
        LET ab == ret.interval
            ba == intersect(call.other, call.self)
        IN  /\ Len(ab) = Len(ba)
            /\ Len(ab) = 1 =>
                  /\ interval_eq(ab[1], ba[1])
                  /\ interval_eq(ba[1], ab[1])
                  /\ ab[1].left.tag = ba[1].left.tag
                  /\ ab[1].right.tag = ba[1].right.tag
                  /\ value(ab[1].left) = value(ba[1].left)
                  /\ value(ab[1].right) = value(ba[1].right)

\* C2 witness: a closed and an open interval sharing their left value
\* intersect to a present result.
C2_Witness ==
    /\ call.op = "intersect"
    /\ call.self = Interval(Closed(0), Closed(2))
    /\ call.other = Interval(Open(0), Open(1))
    /\ Len(ret.interval) = 1

\* C3: for legal A and B that touch (A's right value equals B's left value)
\* A.intersect(B) is the degenerate closed interval at the shared value when
\* both touching bounds are closed and absent when either is open; disjoint
\* intervals intersect to absent; intersect returns an Option, never an error.
C3_TouchingIntervals ==
    call.op = "intersect" =>
        LET A == call.self
            B == call.other
            legal == OrderingInvariant(A) /\ OrderingInvariant(B)
            bounded == HasValue(A.right) /\ HasValue(B.left)
        IN  /\ ret.kind = "Option" /\ ret.err = <<>>
            /\ (legal /\ bounded /\ A.right.v = B.left.v) =>
                  IF A.right.tag = "Closed" /\ B.left.tag = "Closed"
                  THEN /\ Len(ret.interval) = 1
                       /\ interval_eq(ret.interval[1], degenerate(A.right.v))
                       /\ is_closed(ret.interval[1].left)
                       /\ is_closed(ret.interval[1].right)
                  ELSE ret.interval = <<>>
            /\ (legal /\ bounded /\ A.right.v < B.left.v) => ret.interval = <<>>

\* C3 witness: Closed[0,1] meets the left-closed right-open [1,2) in the
\* single point 1.
C3_Witness ==
    /\ call.op = "intersect"
    /\ call.self = Interval(Closed(0), Closed(1))
    /\ call.other = Interval(Closed(1), Open(2))
    /\ Len(ret.interval) = 1
    /\ ret.interval[1].left.v = 1
    /\ ret.interval[1].right.v = 1

\* The Closed(a) and Open(b) operands of a pinch call, in either order
ClosedOpenOperands ==
    \/ call.l.ty = "Closed" /\ call.r.ty = "Open"
    \/ call.l.ty = "Open" /\ call.r.ty = "Closed"

\* C4: pinch of Closed(a) with Open(b), in either operand order: the
\* left-pinch is Closed(a) if a > b and Open(b) otherwise, the right-pinch is
\* Closed(a) if a < b and Open(b) otherwise; on a tie the Open bound wins.
C4_PinchClosedOpen ==
    (call.op \in {"pinch_left", "pinch_right"} /\ ClosedOpenOperands) =>
        LET a == IF call.l.ty = "Closed" THEN call.l.v ELSE call.r.v
            b == IF call.l.ty = "Open" THEN call.l.v ELSE call.r.v
            out == ret.bound[1]
            closedWins == IF call.op = "pinch_left" THEN a > b ELSE a < b
        IN  IF closedWins
            THEN is_closed(out) /\ ~is_open(out) /\ value(out) = <<a>>
            ELSE is_open(out) /\ ~is_closed(out) /\ value(out) = <<b>>

\* C4 witness: a tie, Open(1).pinch_right(Closed(1)), returns the open bound.
C4_Witness ==
    /\ call.op = "pinch_right"
    /\ call.l = Open(1)
    /\ call.r = Closed(1)
    /\ ret.bound = <<OpenOrClosed_Open(1)>>

\* C5: pinch of two bounds of the same fixed kind keeps the kind and the
\* tighter value: the larger value on the left, the smaller on the right.
C5_PinchSameKind ==
    (/\ call.op \in {"pinch_left", "pinch_right"}
     /\ call.l.ty = call.r.ty
     /\ call.l.ty \in {"Open", "Closed"}) =>
        LET a == call.l.v
            b == call.r.v
            tight == IF call.op = "pinch_left" THEN Max(a, b) ELSE Min(a, b)
        IN  ret.bound = <<IF call.l.ty = "Closed" THEN Closed(tight) ELSE Open(tight)>>

\* C5 witness: Closed(0).pinch_left(Closed(2)) is Closed(2).
C5_Witness ==
    /\ call.op = "pinch_left"
    /\ call.l = Closed(0)
    /\ call.r = Closed(2)
    /\ ret.bound = <<Closed(2)>>

\* The pinch half of C6: a pinch with an Unbounded operand, in either
\* position, returns the other operand with its kind and value unchanged.
PinchUnboundedIdentity ==
    (call.op \in {"pinch_left", "pinch_right"}) =>
        /\ ~HasValue(call.l) => ret.bound = <<call.r>>
        /\ ~HasValue(call.r) => ret.bound = <<call.l>>

\* C6 as stated: Unbounded is the identity of pinch, and intersecting the
\* fully unbounded interval with ANY interval X, in either order, returns X.
C6_Original ==
    /\ PinchUnboundedIdentity
    /\ (call.op = "intersect" /\ call.self = unbounded) =>
          ret.interval = <<call.other>>
    /\ (call.op = "intersect" /\ call.other = unbounded) =>
          ret.interval = <<call.self>>

\* C6 amended: Unbounded is the identity of pinch, and intersecting the fully
\* unbounded interval with any interval X that satisfies the ordering rule, in
\* either order, returns X.
C6_UnboundedIdentity ==
    /\ PinchUnboundedIdentity
    /\ (call.op = "intersect" /\ call.self = unbounded
          /\ OrderingInvariant(call.other)) =>
          /\ ret.interval = <<call.other>>
          /\ interval_eq(ret.interval[1], call.other)
    /\ (call.op = "intersect" /\ call.other = unbounded
          /\ OrderingInvariant(call.self)) =>
          /\ ret.interval = <<call.self>>
          /\ interval_eq(ret.interval[1], call.self)

\* C6 witness: the unbounded interval intersected with (0, 1], whose right
\* bound is a dynamic union, returns (0, 1].
C6_Witness ==
    /\ call.op = "intersect"
    /\ call.self = unbounded
    /\ call.other = Interval(Open(0), OpenOrClosed_Closed(1))
    /\ ret.interval = <<call.other>>

\* The constructors that take a pair on trust
UncheckedOps ==
    {"new_unchecked", "lorc_unchecked", "lcro_unchecked", "open_unchecked",
     "closed_unchecked"}

\* The calls that return an interval and are not unchecked constructors,
\* union_closure apart
CheckedOps ==
    {"new", "lorc", "lcro", "open", "closed", "left_bounded", "left_open",
     "left_closed", "right_bounded", "right_open", "right_closed", "unbounded",
     "degenerate", "unit", "intersect"}

\* C7 as stated: after any sequence of the library's operations, unchecked
\* constructors included, the interval the client holds satisfies the
\* ordering rule.
C7_Original == OrderingInvariant(x)

\* C7 amended: every interval returned by a checked constructor, a one-sided
\* constructor, unbounded, degenerate, unit or intersect satisfies the
\* ordering rule, and a client that holds a legal interval still holds a
\* legal one after any call other than new_unchecked and the *_unchecked
\* constructors (union_closure included); the unchecked constructors return
\* the pair they are given, legal or not.
C7_OrderingInvariant ==
    /\ []((call.op \in CheckedOps /\ Len(ret.interval) = 1) =>
              OrderingInvariant(ret.interval[1]))
    /\ [][(call'.op \notin UncheckedOps /\ OrderingInvariant(x)) =>
              OrderingInvariant(x')]_vars

\* C7 witness: an intersection that came out as a single point, the limit
\* case of the ordering rule, and is now the interval the client holds.
C7_Witness ==
    /\ call.op = "intersect"
    /\ OrderingInvariant(call.self)
    /\ ret.interval = <<x>>
    /\ HasValue(x.left) /\ HasValue(x.right)
    /\ x.left.v = x.right.v
    /\ call.self # x

\* The two candidate bounds of a checked constructor call
CandidateLeft ==
    CASE call.op = "new" -> call.l
      [] call.op \in {"lorc", "open"} -> Open(call.a)
      [] call.op \in {"lcro", "closed"} -> Closed(call.a)

CandidateRight ==
    CASE call.op = "new" -> call.r
      [] call.op \in {"lcro", "open"} -> Open(call.b)
      [] call.op \in {"lorc", "closed"} -> Closed(call.b)

\* Reading a bound back gives the value and the classification of the input.
ReadsBack(b, input) ==
    /\ value(b) = value(input)
    /\ is_open(b) = is_open(input)
    /\ is_closed(b) = is_closed(input)

\* C8: a checked constructor (new, closed, open, lcro, lorc) returns
\* Err(DecreasingBounds(left, right)) with exactly the two candidate bounds
\* when validate rejects them, and otherwise an interval whose bounds read
\* back with the values and the classification of the inputs.
C8_CheckedConstructors ==
    (call.op \in {"new", "lorc", "lcro", "open", "closed"}) =>
        IF validate(CandidateLeft, CandidateRight).ok
        THEN /\ ret.err = <<>>
             /\ Len(ret.interval) = 1
             /\ ReadsBack(ret.interval[1].left, CandidateLeft)
             /\ ReadsBack(ret.interval[1].right, CandidateRight)
        ELSE /\ ret.interval = <<>>
             /\ ret.err = <<CandidateLeft, CandidateRight>>

\* C8 witness: lcro(2, 1) is rejected and the error carries Closed(2), Open(1).
C8_Witness ==
    /\ call.op = "lcro"
    /\ call.a = 2
    /\ call.b = 1
    /\ ret.err = <<Closed(2), Open(1)>>

\* The containment test of one side, by the current tag of the bound
LeftTest(b, val) ==
    CASE b.tag = "None" -> TRUE
      [] b.tag = "Closed" -> val >= b.v
      [] b.tag = "Open" -> val > b.v

RightTest(b, val) ==
    CASE b.tag = "None" -> TRUE
      [] b.tag = "Closed" -> val <= b.v
      [] b.tag = "Open" -> val < b.v

\* C9: contains(v) is true exactly when v passes the left bound's test and the
\* right bound's test, for every pair of bound kinds that offers contains.
C9_ContainsRule ==
    call.op = "contains" =>
        (ret.flag <=> (LeftTest(call.self.left, call.a)
                         /\ RightTest(call.self.right, call.a)))

\* C10: union_closure(A, B), in either operand order, is the closed hull: a
\* side is Unbounded if either operand is Unbounded there, and otherwise
\* Closed(min of the left values) on the left, Closed(max of the right
\* values) on the right, whatever the kinds of the operands.
C10_UnionClosureHull ==
    call.op = "union_closure" =>
        LET A == call.self
            B == call.other
            hullLeft == IF HasValue(A.left) /\ HasValue(B.left)
                        THEN Closed(Min(A.left.v, B.left.v)) ELSE NoBound
            hullRight == IF HasValue(A.right) /\ HasValue(B.right)
                         THEN Closed(Max(A.right.v, B.right.v)) ELSE NoBound
        IN  /\ ret.interval = <<Interval(hullLeft, hullRight)>>
            /\ union_closure(B, A) = Interval(hullLeft, hullRight)
            /\ (A = unbounded \/ B = unbounded) => ret.interval = <<unbounded>>

\* C10 witness: Open(0, 1) with the left-closed right-open [1, 2) gives
\* Closed[0, 2].
C10_Witness ==
    /\ call.op = "union_closure"
    /\ call.self = Interval(Open(0), Open(1))
    /\ call.other = Interval(Closed(1), Open(2))
    /\ ret.interval = <<Interval(Closed(0), Closed(2))>>

\* C11: for any two intervals A and B that each satisfy the ordering rule,
\* the pair (unroll_left(A.left, B.left).with_limit_point(),
\* unroll_right(A.right, B.right).with_limit_point()) passes validate, and it
\* is the pair the union closure is built from.
C11_UnrollValidates ==
    (call.op = "union_closure" /\ OrderingInvariant(call.self)
                               /\ OrderingInvariant(call.other)) =>
        LET A == call.self
            B == call.other
            left == with_limit_point(unroll_left(A.left, B.left))
            right == with_limit_point(unroll_right(A.right, B.right))
        IN  /\ validate(left, right).ok
            /\ ret.interval = <<Interval(left, right)>>

\* C11 witness: two legal degenerate intervals at the same point; the pair
\* is (Closed(1), Closed(1)), the tightest pair validate accepts.
C11_Witness ==
    /\ call.op = "union_closure"
    /\ call.self = Interval(Closed(1), OpenOrClosed_Closed(1))
    /\ call.other = Interval(OpenOrClosed_Closed(1), Closed(1))
    /\ ret.interval = <<Interval(Closed(1), Closed(1))>>

\* The kind a bound has by its current tag, with its value.
KindAndValue(b) == <<b.tag, b.v>>

\* C12: unroll_left returns the bound with the smaller value and
\* unroll_right the bound with the larger value, with that bound's kind and
\* value; at equal values a Closed bound wins over an Open one in either
\* operand order; with an Unbounded operand in either position the result is
\* Unbounded.
C12_UnrollLooser ==
    call.op \in {"unroll_left", "unroll_right"} =>
        LET l == call.l
            r == call.r
            res == ret.bound[1]
            isLeft == call.op = "unroll_left"
            looser == IF isLeft THEN (IF l.v < r.v THEN l ELSE r)
                      ELSE (IF l.v > r.v THEN l ELSE r)
        IN  /\ (~HasValue(l) \/ ~HasValue(r)) => res = NoBound
            /\ (HasValue(l) /\ HasValue(r) /\ l.v # r.v) =>
                  KindAndValue(res) = KindAndValue(looser)
            /\ (HasValue(l) /\ HasValue(r) /\ l.v = r.v) =>
                  /\ res.v = l.v
                  /\ res.tag = IF l.tag = "Closed" \/ r.tag = "Closed"
                               THEN "Closed" ELSE "Open"
            /\ (l.ty = "Closed" /\ r.ty = "Closed") => res.ty = "Closed"
            /\ (l.ty = "Open" /\ r.ty = "Open") => res.ty = "Open"

\* C12 witness: Open(1) unrolled on the right with Closed(1) gives the Closed
\* bound at 1.
C12_Witness ==
    /\ call.op = "unroll_right"
    /\ call.l = Open(1)
    /\ call.r = Closed(1)
    /\ ret.bound = <<OpenOrClosed_Closed(1)>>

-----------------------------------------------------------------------------
(* Properties of the partitions *)

\* A call of op on a partition of the given type has returned.
Returned(op, type) ==
    pcall.op = op /\ part.type = type /\ pret.kind = "returned"

\* C13: on a Uniform partition of N >= 1 buckets over [L, R] with L <= R,
\* index(v) returns; it is None when v < L or v > R, Some(N - 1) when v = R,
\* and for L <= v < R it is Some(i) with i = floor((v - L) / width),
\* width = (R - L) / N, that is i * (R - L) <= (v - L) * N < (i + 1) * (R - L).
C13_UniformIndex ==
    (pcall.op = "index" /\ part.type = "Uniform" /\ part.size >= 1) =>
        LET L == part.left
            R == part.right
            v == pcall.val
        IN  /\ pret.kind = "returned"
            /\ (v < L \/ v > R) => pret.index = <<>>
            /\ (L <= R /\ v = R) => pret.index = <<part.size - 1>>
            /\ (L <= v /\ v < R) =>
                  /\ Len(pret.index) = 1
                  /\ pret.index[1] * (R - L) <= (v - L) * part.size
                  /\ (v - L) * part.size < (pret.index[1] + 1) * (R - L)

\* C13 witness: in two buckets of width 2 over [0, 4] the value 3 is in
\* bucket 1.
C13_Witness ==
    /\ Returned("index", "Uniform")
    /\ part = Uniform(2, 0, 4)
    /\ pcall.val = 3
    /\ pret.index = <<1>>

\* C14: Uniform{N, L, R}.subinterval(k) for k < N is the bucket from
\* Closed(L + k * width) to L + (k + 1) * width, width = (R - L) / N, the
\* right edge Open for k < N - 1 and Closed for k = N - 1.
C14_UniformSubinterval ==
    (Returned("subinterval", "Uniform") /\ pcall.k < part.size) =>
        LET k == pcall.k
            width == (part.right - part.left) \div part.size
            l == part.left + k * width
            r == part.left + (k + 1) * width
        IN  pret.sub = <<SubInterval(k,
                Interval(Closed(l),
                         IF k = part.size - 1 THEN OpenOrClosed_Closed(r)
                         ELSE OpenOrClosed_Open(r)))>>

\* The breakpoints are ascending: no neighbour is above the next.
Ascending(p) == \A i \in 1..(Len(p) - 1) : le(p[i], p[i + 1])

\* C15: over ascending breakpoints p[0..N), N >= 2, index(v) for a v with
\* p[0] <= v < p[N-1] returns Some(i) with p[i] <= v < p[i+1], and index of
\* the final breakpoint returns the last subinterval index, N - 2.
C15_DeclarativeIndex ==
    (Returned("index", "Declarative") /\ N(part) >= 2 /\ Ascending(part.p)) =>
        LET p == part.p
            v == pcall.val
        IN  /\ (le(p[1], v) /\ lt(v, p[N(part)])) =>
                  /\ Len(pret.index) = 1
                  /\ pret.index[1] + 2 <= N(part)
                  /\ le(p[pret.index[1] + 1], v)
                  /\ lt(v, p[pret.index[1] + 2])
            /\ f64_eq(v, p[N(part)]) => pret.index = <<N(part) - 2>>

\* C16: Declarative.subinterval(k), for each of the N - 1 subintervals
\* between consecutive breakpoints, is Closed(p[k]) to p[k+1], the right edge
\* Open except for the last subinterval (k = N - 2), where it is
\* Closed(p[k+1]).
C16_DeclarativeSubinterval ==
    (pcall.op = "subinterval" /\ part.type = "Declarative" /\ pcall.k + 2 <= N(part)) =>
        LET k == pcall.k
            p == part.p
        IN  /\ pret.kind = "returned"
            /\ pret.sub = <<SubInterval(k,
                    Interval(Closed(p[k + 1]),
                             IF k = N(part) - 2 THEN OpenOrClosed_Closed(p[k + 2])
                             ELSE OpenOrClosed_Open(p[k + 2])))>>

\* The interval of a SubInterval contains v, by its edges.
SubIntervalContains(sub, v) ==
    /\ le(sub.interval.left.v, v)
    /\ IF sub.interval.right.tag = "Open" THEN lt(v, sub.interval.right.v)
       ELSE le(v, sub.interval.right.v)

\* C17: when digitise(v) returns a SubInterval, its index is index(v) and its
\* interval contains v, for Uniform and for Declarative partitions.
C17_DigitiseContains ==
    (pcall.op = "digitise" /\ pret.kind = "returned" /\ Len(pret.sub) = 1) =>
        /\ pret.index = <<pret.sub[1].index>>
        /\ SubIntervalContains(pret.sub[1], pcall.val)

\* C18: Declarative::new(p) returns Err(IllFormedBounds(p)) and builds no
\* partition when some p[i] > p[i+1]; when p is ascending it returns the
\* partition that holds exactly p.
C18_DeclarativeNew ==
    pcall.op = "new" =>
        LET p == pcall.bounds
        IN  /\ (\E i \in 1..(Len(p) - 1) : lt(p[i + 1], p[i])) =>
                  /\ pret.err = <<p>>
                  /\ part = NoPartition
            /\ Ascending(p) =>
                  /\ pret.err = <<>>
                  /\ part.type = "Declarative"
                  /\ part.p = p

\* C18 witness: equal neighbours are ascending, and the partition is built.
C18_Witness ==
    /\ pcall.op = "new"
    /\ pcall.bounds = <<0, 1, 1>>
    /\ part = Declarative(<<0, 1, 1>>)
    /\ pret.err = <<>>

\* A running binary_search whose next iteration changes neither low nor high:
\* the loop never ends.
LoopsForever ==
    /\ pret.kind = "running"
    /\ LET step == binary_search(part.p, pcall.val, pcall.low, pcall.high)
       IN  ~step.done /\ step.low = pcall.low /\ step.high = pcall.high

\* C19: no query of a partition panics or fails to return, whatever the size
\* of the partition and the argument.
C19_NoAbort ==
    /\ pret.kind # "panicked"
    /\ ~LoopsForever

\* binary_search is about to compare val with a breakpoint that is
\* incomparable with it.
ExaminesIncomparable ==
    /\ pret.kind = "running"
    /\ pcall.low < pcall.high
    /\ LET middle == (pcall.low + pcall.high) \div 2
       IN  \/ partial_cmp(part.p[middle + 1], pcall.val) = <<>>
           \/ partial_cmp(part.p[middle + 2], pcall.val) = <<>>

\* C20: when binary_search examines a breakpoint incomparable with the
\* value, that iteration ends the search: index returns None (and digitise,
\* built on it, returns None), with no panic and no further iteration.
C20_IncomparableNotFound ==
    [][ExaminesIncomparable =>
          /\ pret'.kind = "returned"
          /\ pret'.index = <<>>
          /\ pret'.sub = <<>>]_vars

\* C20 witness: index(1) over [0, 1, NaN] has returned None from the first
\* iteration, which compared 1 with the breakpoints 1 and NaN.
C20_Witness ==
    /\ Returned("index", "Declarative")
    /\ part.p = <<0, 1, NaN>>
    /\ pcall.val = 1
    /\ pcall.low = 0 /\ pcall.high = 2
    /\ pret.index = <<>>

-----------------------------------------------------------------------------
(* Further properties *)

\* Each breakpoint is below the next one.
StrictlyAscending(p) == \A i \in 1..(Len(p) - 1) : lt(p[i], p[i + 1])

\* C21: a Declarative partition of N >= 2 ascending breakpoints has N - 1 subintervals:
\* len() returns N - 1, subinterval(k) is the one between p[k] and p[k+1] for
\* k in 0..N-2 and None for any other k, and index never returns an index
\* above N - 2.
C21_DeclarativeLen ==
    (part.type = "Declarative" /\ N(part) >= 2 /\ StrictlyAscending(part.p)) =>
        /\ pcall.op = "len" => (pret.kind = "returned" /\ pret.len = <<N(part) - 1>>)
        /\ (pcall.op = "index" /\ pret.kind = "returned" /\ Len(pret.index) = 1) =>
              pret.index[1] + 2 <= N(part)
        /\ pcall.op = "subinterval" =>
              /\ pret.kind = "returned"
              /\ IF pcall.k + 2 <= N(part)
                 THEN /\ Len(pret.sub) = 1
                      /\ pret.sub[1].index = pcall.k
                      /\ pret.sub[1].interval.left.v = part.p[pcall.k + 1]
                      /\ pret.sub[1].interval.right.v = part.p[pcall.k + 2]
                 ELSE pret.sub = <<>>

\* C22: is_degenerate() is true exactly when both bounds are closed by their
\* current tag and carry equal values, so it is false with an Open or an
\* Unbounded side; and Interval::degenerate(v) is degenerate for every v.
C22_IsDegenerate ==
    /\ call.op = "is_degenerate" =>
          (ret.flag <=> /\ call.self.left.tag = "Closed"
                        /\ call.self.right.tag = "Closed"
                        /\ call.self.left.v = call.self.right.v)
    /\ call.op = "degenerate" => is_degenerate(ret.interval[1])

\* C22 witness: the interval from a dynamic union tagged Closed at 1 to
\* Closed(1) is degenerate.
C22_Witness ==
    /\ call.op = "is_degenerate"
    /\ call.self = Interval(OpenOrClosed_Closed(1), Closed(1))
    /\ ret.flag

\* Two bounds are the same bound: the same kind by the current tag, and the
\* same value if they carry one.
SameBound(a, b) == a.tag = b.tag /\ (HasValue(a) => a.v = b.v)

\* C23: Open(x) never equals Closed(y); Unbounded never equals a bound that
\* carries a value, in either order; a dynamic union equals a concrete Open
\* or Closed bound exactly when its tag is that kind and the values are
\* equal; two intervals are equal exactly when their left bounds are equal
\* and their right bounds are equal by these rules.
C23_Equality ==
    /\ call.op = "bound_eq" =>
          LET l == call.l
              r == call.r
          IN  /\ ({l.ty, r.ty} = {"Open", "Closed"}) => ~ret.flag
              /\ (HasValue(l) # HasValue(r)) => ~ret.flag
              /\ (l.ty = "OpenOrClosed" /\ r.ty \in {"Open", "Closed"}) =>
                    (ret.flag <=> (l.tag = r.ty /\ l.v = r.v))
              /\ (r.ty = "OpenOrClosed" /\ l.ty \in {"Open", "Closed"}) =>
                    (ret.flag <=> (r.tag = l.ty /\ l.v = r.v))
              /\ ret.flag <=> SameBound(l, r)
    /\ call.op = "interval_eq" =>
          (ret.flag <=> /\ SameBound(call.self.left, call.other.left)
                        /\ SameBound(call.self.right, call.other.right))

\* C23 witness: a dynamic union tagged Open at 1 is not equal to Closed(1).
C23_Witness ==
    /\ call.op = "bound_eq"
    /\ call.l = OpenOrClosed_Open(1)
    /\ call.r = Closed(1)
    /\ ~ret.flag

\* C24: every interval the client can hold, of any of the 16 pairs of bound
\* kinds, offers contains.
C24_ContainsTotal == <<x.left.ty, x.right.ty>> \in ContainsImpls

\* The combinator a call names, applied to two bounds
Combinator(op, a, b) ==
    CASE op = "pinch_left" -> pinch_left(a, b)
      [] op = "pinch_right" -> pinch_right(a, b)
      [] op = "unroll_left" -> unroll_left(a, b)
      [] op = "unroll_right" -> unroll_right(a, b)

\* C25: for each of the four combinators and concrete Open / Closed
\* operands, replacing either operand or both by the dynamic union of the
\* same tag and value gives a dynamic union with the kind and the value of
\* the result on the concrete operands.
C25_UnionTransparent ==
    (/\ call.op \in {"pinch_left", "pinch_right", "unroll_left", "unroll_right"}
     /\ call.l.ty \in {"Open", "Closed"}
     /\ call.r.ty \in {"Open", "Closed"}) =>
        \A l2 \in {call.l, into(call.l)}, r2 \in {call.r, into(call.r)} :
            (l2 # call.l \/ r2 # call.r) =>
                /\ Combinator(call.op, l2, r2).ty = "OpenOrClosed"
                /\ KindAndValue(Combinator(call.op, l2, r2)) = KindAndValue(ret.bound[1])

\* C25 witness: Closed(1) unrolled on the left with Open(1) gives the Closed
\* bound at 1, as it does with the union operands.
C25_Witness ==
    /\ call.op = "unroll_left"
    /\ call.l = Closed(1)
    /\ call.r = Open(1)
    /\ KindAndValue(ret.bound[1]) = <<"Closed", 1>>
    /\ unroll_left(Closed(1), OpenOrClosed_Open(1)) = OpenOrClosed_Closed(1)

\* w / 2 belongs to the interval: the membership rule on a domain with a
\* point between any two neighbouring bound values.
MemberHalf(i, w) ==
    /\ LeftTest([i.left EXCEPT !.v = 2 * @], w)
    /\ RightTest([i.right EXCEPT !.v = 2 * @], w)

\* C26: for intervals A and B that satisfy the ordering rule, a present
\* A.intersect(B) holds exactly the values that belong to A and to B, and an
\* absent one means no value belongs to both.
C26_IntersectIsIntersection ==
    (/\ call.op = "intersect"
     /\ OrderingInvariant(call.self)
     /\ OrderingInvariant(call.other)) =>
        \A w \in (0 - 1)..(2 * MaxVal + 1) :
            LET both == MemberHalf(call.self, w) /\ MemberHalf(call.other, w)
            IN  IF Len(ret.interval) = 1
                THEN MemberHalf(ret.interval[1], w) <=> both
                ELSE ~both

\* C26 witness: [1, 2] intersected with (1, 2) is (1, 2): the shared end
\* values belong to one operand only.
C26_Witness ==
    /\ call.op = "intersect"
    /\ call.self = Interval(Closed(1), Closed(2))
    /\ call.other = Interval(Open(1), Open(2))
    /\ Len(ret.interval) = 1
    /\ KindAndValue(ret.interval[1].left) = <<"Open", 1>>
    /\ KindAndValue(ret.interval[1].right) = <<"Open", 2>>

\* C27: over ascending breakpoints, N >= 2, index(v) of an ordered value v
\* never enters an iteration that leaves low and high as they were, and it
\* returns None for a v below the first or above the final breakpoint.
C27_SearchTerminates ==
    (/\ pcall.op = "index"
     /\ part.type = "Declarative"
     /\ N(part) >= 2
     /\ StrictlyAscending(part.p)
     /\ pcall.val # NaN) =>
        /\ ~LoopsForever
        /\ (/\ pret.kind = "returned"
            /\ lt(pcall.val, part.p[1]) \/ lt(part.p[N(part)], pcall.val)) =>
              pret.index = <<>>

\* len() of the partition the client holds, as a sequence: empty if len()
\* panics
LenOf(self) ==
    IF self.type = "Uniform" THEN Uniform_len(self).val
    ELSE Declarative_len(self, TRUE).val

\* subinterval(k) of the partition the client holds
SubintervalOf(self, k) ==
    IF self.type = "Uniform" THEN Uniform_subinterval(self, k)
    ELSE Declarative_subinterval(self, k, TRUE)

\* C28: for a Uniform partition with L < R and count >= 1, and for a
\* Declarative one of N >= 2 ascending breakpoints, whenever index(v) returns
\* Some(k), k < len() and subinterval(k) is present.
C28_IndexWithinLen ==
    (/\ pcall.op = "index"
     /\ pret.kind = "returned"
     /\ Len(pret.index) = 1
     /\ \/ part.type = "Uniform" /\ part.left < part.right /\ part.size >= 1
        \/ part.type = "Declarative" /\ N(part) >= 2 /\ StrictlyAscending(part.p)) =>
        /\ Len(LenOf(part)) = 1
        /\ pret.index[1] < LenOf(part)[1]
        /\ ~SubintervalOf(part, pret.index[1]).panicked
        /\ Len(SubintervalOf(part, pret.index[1]).val[1]) = 1

\* C29: each SubInterval returned from a partition that Declarative::new
\* accepts, or from a Uniform partition with L < R and count >= 1, has a pair
\* of bounds that validate accepts.
C29_SubintervalLegal ==
    (/\ pcall.op = "subinterval"
     /\ pret.kind = "returned"
     /\ Len(pret.sub) = 1
     /\ \/ part.type = "Declarative" /\ Declarative_new(part.p).ok
        \/ part.type = "Uniform" /\ part.left < part.right /\ part.size >= 1) =>
        validate(pret.sub[1].interval.left, pret.sub[1].interval.right).ok

\* C30: for two bounds that carry values, pinch and unroll on the same side
\* each return one of the two operands (its kind and its value), and between
\* them they return both operands.
C30_PinchUnrollComplement ==
    (/\ call.op \in {"pinch_left", "pinch_right", "unroll_left", "unroll_right"}
     /\ HasValue(call.l)
     /\ HasValue(call.r)) =>
        LET isLeft == call.op \in {"pinch_left", "unroll_left"}
            pinched == IF isLeft THEN pinch_left(call.l, call.r)
                       ELSE pinch_right(call.l, call.r)
            unrolled == IF isLeft THEN unroll_left(call.l, call.r)
                        ELSE unroll_right(call.l, call.r)
            operands == {KindAndValue(call.l), KindAndValue(call.r)}
        IN  /\ KindAndValue(ret.bound[1]) \in operands
            /\ {KindAndValue(pinched), KindAndValue(unrolled)} = operands

\* C30 witness: on the left, Closed(1) and Open(1) unroll to the Closed bound,
\* and pinch to the Open one.
C30_Witness ==
    /\ call.op = "unroll_left"
    /\ call.l = Closed(1)
    /\ call.r = OpenOrClosed_Open(1)
    /\ KindAndValue(ret.bound[1]) = <<"Closed", 1>>
    /\ KindAndValue(pinch_left(call.l, call.r)) = <<"Open", 1>>

====
